---------------------------- MODULE Spec2Model ----------------------------
(***************************************************************************)
(* Projectile lab: the kinematic resolver (solveProjectileSystem), the     *)
(* trajectory sampler (generateTrajectory) and the derivation writer       *)
(* (generateSteps) of src/labs/projectiles/utils.ts                        *)
(*                                                                         *)
(* A JavaScript number is modelled as a decimal fixed-point integer with   *)
(* Scale units per 1.0; every arithmetic operation rounds its result to    *)
(* the nearest unit, as every IEEE operation rounds to the nearest double, *)
(* and a result beyond MaxFinite overflows to an infinity, as a double     *)
(* beyond Number.MAX_VALUE does; a result below half a unit rounds to 0,   *)
(* as a double below half the least subnormal does.  NaN, +Infinity,       *)
(* -Infinity and null are four reserved integers outside the finite range; *)
(* the sign of a zero is not represented.                                  *)
(***************************************************************************)
EXTENDS Integers, Sequences, FiniteSets, TLC

-----------------------------------------------------------------------------
(* The number representation                                                *)

Scale == 10000

NaN == 2147483647
PosInf == 2147483646
NegInf == -2147483646
null == -2147483647

MaxFinite == 200000000

IsFinite(x) == x >= -MaxFinite /\ x <= MaxFinite

(* overflow of a finite result *)
Sat(x) == IF x > MaxFinite THEN PosInf ELSE IF x < -MaxFinite THEN NegInf ELSE x

Num(n) == n * Scale

Abs(x) == IF x < 0 THEN -x ELSE x

Sign(x) == IF x < 0 THEN -1 ELSE IF x > 0 THEN 1 ELSE 0

(* a < b, a <= b, a > b of JavaScript: false as soon as one side is NaN *)
Lt(a, b) == a # NaN /\ b # NaN /\ a < b

Le(a, b) == a # NaN /\ b # NaN /\ a <= b

Gt(a, b) == a # NaN /\ b # NaN /\ a > b

Neg(a) == IF a = NaN THEN NaN ELSE -a

Add(a, b) ==
  IF a = NaN \/ b = NaN THEN NaN
  ELSE IF ~IsFinite(a) THEN (IF ~IsFinite(b) /\ b # a THEN NaN ELSE a)
  ELSE IF ~IsFinite(b) THEN b
  ELSE Sat(a + b)

Sub(a, b) == Add(a, Neg(b))

(* round(a * b / Scale) for naturals a, b <= MaxFinite, computed in halves  *)
(* so that no intermediate product leaves the 32-bit range; PosInf when the *)
(* result is beyond MaxFinite                                               *)
MulNat(a, b) ==
  LET ah == a \div Scale
      al == a % Scale
      bh == b \div Scale
      bl == b % Scale
  IN  IF ah * bh > MaxFinite \div Scale THEN PosInf
      ELSE Sat(ah * bh * Scale + ah * bl + al * bh
               + (al * bl + Scale \div 2) \div Scale)

Mul(a, b) ==
  IF a = NaN \/ b = NaN THEN NaN
  ELSE IF ~IsFinite(a) \/ ~IsFinite(b)
       THEN (IF a = 0 \/ b = 0 THEN NaN
             ELSE IF Sign(a) * Sign(b) > 0 THEN PosInf ELSE NegInf)
  ELSE Sign(a) * Sign(b) * MulNat(Abs(a), Abs(b))

(* round(a * 10^k / b) for naturals a and b > 0, one decimal digit a step; *)
(* r is the running remainder, q the running quotient; PosInf when the      *)
(* quotient is beyond MaxFinite                                             *)
RECURSIVE DivDigits(_, _, _, _)
DivDigits(q, r, b, k) ==
  IF q > MaxFinite THEN PosInf
  ELSE IF k = 0 THEN Sat(IF 2 * r >= b THEN q + 1 ELSE q)
  ELSE DivDigits(q * 10 + (r * 10) \div b, (r * 10) % b, b, k - 1)

DivNat(a, b) == DivDigits(a \div b, a % b, b, 4)

Div(a, b) ==
  IF a = NaN \/ b = NaN THEN NaN
  ELSE IF ~IsFinite(a) THEN (IF ~IsFinite(b) THEN NaN
                             ELSE IF Sign(a) * (IF b < 0 THEN -1 ELSE 1) > 0
                                  THEN PosInf ELSE NegInf)
  ELSE IF ~IsFinite(b) THEN 0
  ELSE IF b = 0 THEN (IF a = 0 THEN NaN ELSE IF a > 0 THEN PosInf ELSE NegInf)
  ELSE Sign(a) * Sign(b) * DivNat(Abs(a), Abs(b))

(* r * r <= a * Scale, compared without forming either product *)
SqLeq(r, a) ==
  LET rh == r \div Scale
      rl == r % Scale
      hi == rh * rh * Scale + 2 * rh * rl + (rl * rl) \div Scale
  IN  hi < a \/ (hi = a /\ (rl * rl) % Scale = 0)

(* the largest r in lo..hi with r * r <= a * Scale *)
RECURSIVE SqrtSearch(_, _, _)
SqrtSearch(a, lo, hi) ==
  IF lo >= hi THEN lo
  ELSE LET mid == (lo + hi + 1) \div 2
       IN  IF SqLeq(mid, a) THEN SqrtSearch(a, mid, hi)
           ELSE SqrtSearch(a, lo, mid - 1)

(* round(sqrt(a * Scale)): the floor r, or r + 1 when (r + 1/2)^2 <= a * Scale *)
SqrtNat(a) ==
  LET r == SqrtSearch(a, 0, 1500000)
  IN  IF SqLeq(2 * r + 1, 4 * a) THEN r + 1 ELSE r

Sqrt(a) ==
  IF a = NaN \/ a < 0 THEN NaN
  ELSE IF a = PosInf THEN PosInf
  ELSE SqrtNat(a)

-----------------------------------------------------------------------------
(* Math.PI, Math.sin, Math.cos, Math.atan2                                  *)

PI == 31416

HalfPi == 15708

QuarterPi == 7854

(* x - x^3/3! + x^5/5! - x^7/7! for 0 <= x <= pi/4 *)
SinPoly(x) ==
  LET x2 == MulNat(x, x)
      x3 == MulNat(x2, x)
      x5 == MulNat(x3, x2)
      x7 == MulNat(x5, x2)
  IN  x - DivNat(x3, Num(6)) + DivNat(x5, Num(120)) - DivNat(x7, Num(5040))

(* 1 - x^2/2! + x^4/4! - x^6/6! + x^8/8! for 0 <= x <= pi/4 *)
CosPoly(x) ==
  LET x2 == MulNat(x, x)
      x4 == MulNat(x2, x2)
      x6 == MulNat(x4, x2)
      x8 == MulNat(x4, x4)
  IN  Scale - DivNat(x2, Num(2)) + DivNat(x4, Num(24)) - DivNat(x6, Num(720))
      + DivNat(x8, Num(40320))

(* sin of 0 <= x <= pi *)
SinHalfTurn(x) ==
  LET y == IF x > HalfPi THEN PI - x ELSE x
  IN  IF y <= QuarterPi THEN SinPoly(y) ELSE CosPoly(HalfPi - y)

Sin(x) ==
  IF ~IsFinite(x) THEN NaN
  ELSE LET y == Abs(x) % (2 * PI)
           s == IF y > PI THEN -SinHalfTurn(y - PI) ELSE SinHalfTurn(y)
       IN  IF x < 0 THEN -s ELSE s

Cos(x) ==
  IF ~IsFinite(x) THEN NaN
  ELSE LET y == Abs(x) % (2 * PI)
           z == IF y > PI THEN 2 * PI - y ELSE y
       IN  IF z <= QuarterPi THEN CosPoly(z)
           ELSE IF z <= HalfPi + QuarterPi
                THEN (IF z <= HalfPi THEN SinPoly(HalfPi - z) ELSE -SinPoly(z - HalfPi))
           ELSE -CosPoly(PI - z)

(* z - z^3/3 + z^5/5 - ... - z^11/11 for 0 <= z <= tan(pi/8) *)
AtanPoly(z) ==
  LET z2 == MulNat(z, z)
      z3 == MulNat(z2, z)
      z5 == MulNat(z3, z2)
      z7 == MulNat(z5, z2)
      z9 == MulNat(z7, z2)
      z11 == MulNat(z9, z2)
  IN  z - DivNat(z3, Num(3)) + DivNat(z5, Num(5)) - DivNat(z7, Num(7))
      + DivNat(z9, Num(9)) - DivNat(z11, Num(11))

(* atan of 0 <= z <= 1, by atan z = 2 atan(z / (1 + sqrt(1 + z^2))) *)
AtanUnit(z) ==
  2 * AtanPoly(DivNat(z, Scale + SqrtNat(Scale + MulNat(z, z))))

(* atan2 of finite y >= 0 and x >= 0, not both 0 *)
AtanQuadrant(y, x) ==
  IF y <= x THEN AtanUnit(DivNat(y, x)) ELSE HalfPi - AtanUnit(DivNat(x, y))

Atan2(y, x) ==
  IF y = NaN \/ x = NaN THEN NaN
  ELSE IF ~IsFinite(y)
       THEN Sign(y) * (IF x = PosInf THEN QuarterPi
                       ELSE IF x = NegInf THEN HalfPi + QuarterPi
                       ELSE HalfPi)
  ELSE IF ~IsFinite(x)
       THEN (IF x = PosInf THEN 0 ELSE IF y < 0 THEN -PI ELSE PI)
  ELSE IF y = 0 /\ x = 0 THEN 0
  ELSE LET a == AtanQuadrant(Abs(y), Abs(x))
           b == IF x < 0 THEN PI - a ELSE a
       IN  IF y < 0 THEN -b ELSE b

(* src/labs/projectiles/utils.ts:6-7 *)
toRad(deg) == Div(Mul(deg, PI), Num(180))

toDeg(rad) == Div(Mul(rad, Num(180)), PI)

(* Math.pow(x, 2) *)
Pow2(x) == Mul(x, x)

-----------------------------------------------------------------------------
(* Constants of the program                                                 *)

(* G = 9.81 *)
G == 98100

(* the literal 0.0001 of the degenerate-angle guards *)
Epsilon == 1

(* the literal 0.5 *)
Half == 5000

(* the default of generateTrajectory's points parameter *)
DefaultPoints == 100

-----------------------------------------------------------------------------
(* Bounds of the checked inputs                                             *)

MaxMag == 1

MaxThetaIdx == 6

MaxPoints == 3

UVals == {Num(20 * k) : k \in 0..MaxMag}

(* multiples of 30 degrees, and 0.0115 degrees, whose sine is two units:   *)
(* just above Epsilon                                                      *)
ThetaVals == {Num(30 * k) : k \in -1..MaxThetaIdx} \cup {Num(23) \div 2000}

Y0Vals == {Num(5 * k) : k \in -1..1}

RangeVals == {Num(50 * k) : k \in -1..MaxMag}

MaxHeightVals == {Num(5 * k) : k \in -1..MaxMag}

FlightTimeVals == {Num(4 * k) : k \in 0..MaxMag}

PointsVals == 0..MaxPoints \cup {DefaultPoints}

Nullable(S) == S \cup {null}

(* ProjectileState *)
ProjectileState ==
  [u : Nullable(UVals), theta : Nullable(ThetaVals), y0 : Nullable(Y0Vals),
   range : Nullable(RangeVals), maxHeight : Nullable(MaxHeightVals),
   flightTime : Nullable(FlightTimeVals)]

(* the value of a variable of type SolvedVariables | null that holds null *)
NoSolved ==
  [u |-> null, theta |-> null, y0 |-> null, ux |-> null, uy |-> null,
   range |-> null, maxHeight |-> null, flightTime |-> null]

-----------------------------------------------------------------------------
(* solveProjectileSystem                                                    *)

(* inputs.y0 || 0 *)
Y0Of(f) == IF f.y0 = null \/ f.y0 = 0 \/ f.y0 = NaN THEN 0 ELSE f.y0

(* the if-chain with the maxHeight test moved before the range test *)
MatchCase_HeightFirst(f) ==
  IF f.u # null /\ f.theta # null THEN "A"
  ELSE IF f.maxHeight # null /\ f.theta # null THEN "C"
  ELSE IF f.range # null /\ f.theta # null THEN "B"
  ELSE IF f.flightTime # null /\ f.theta # null THEN "D"
  ELSE IF f.range # null /\ f.flightTime # null THEN "E"
  ELSE "none"

(* the if-chain without its last test *)
MatchCase_NoRangeTime(f) ==
  IF f.u # null /\ f.theta # null THEN "A"
  ELSE IF f.range # null /\ f.theta # null THEN "B"
  ELSE IF f.maxHeight # null /\ f.theta # null THEN "C"
  ELSE IF f.flightTime # null /\ f.theta # null THEN "D"
  ELSE "none"

(* the if-chain of the five cases, in the order of the source *)
MatchCase(f) ==
  IF f.u # null /\ f.theta # null THEN "A"
  ELSE IF f.range # null /\ f.theta # null THEN "B"
  ELSE IF f.maxHeight # null /\ f.theta # null THEN "C"
  ELSE IF f.flightTime # null /\ f.theta # null THEN "D"
  ELSE IF f.range # null /\ f.flightTime # null THEN "E"
  ELSE "none"

(* CASE A keeping a supplied maxHeight or flightTime instead of computing it *)
CaseAResult_KeepsKnowns(f) ==
  LET y0 == Y0Of(f)
      thetaRad == toRad(f.theta)
      ux == Mul(f.u, Cos(thetaRad))
      uy == Mul(f.u, Sin(thetaRad))
      tPeak == Div(uy, G)
      calculatedMaxHeight ==
        Sub(Add(y0, Mul(uy, tPeak)), Mul(Mul(Half, G), Pow2(tPeak)))
      calculatedFlightTime ==
        Div(Add(uy, Sqrt(Add(Pow2(uy), Mul(Mul(Num(2), G), y0)))), G)
      calculatedRange == Mul(ux, calculatedFlightTime)
  IN  [u |-> f.u, theta |-> f.theta, y0 |-> y0, ux |-> ux, uy |-> uy,
       range |-> calculatedRange,
       maxHeight |-> IF f.maxHeight # null THEN f.maxHeight
                     ELSE calculatedMaxHeight,
       flightTime |-> IF f.flightTime # null THEN f.flightTime
                      ELSE calculatedFlightTime]

(* CASE A: the object returned for u and theta *)
(* CASE A with the flight time of a launch from the ground, 2 uy / g *)
CaseAResult_GroundTime(f) ==
  LET y0 == Y0Of(f)
      thetaRad == toRad(f.theta)
      ux == Mul(f.u, Cos(thetaRad))
      uy == Mul(f.u, Sin(thetaRad))
      tPeak == Div(uy, G)
      calculatedMaxHeight ==
        Sub(Add(y0, Mul(uy, tPeak)), Mul(Mul(Half, G), Pow2(tPeak)))
      calculatedFlightTime == Div(Mul(Num(2), uy), G)
      calculatedRange == Mul(ux, calculatedFlightTime)
  IN  [u |-> f.u, theta |-> f.theta, y0 |-> y0, ux |-> ux, uy |-> uy,
       range |-> calculatedRange, maxHeight |-> calculatedMaxHeight,
       flightTime |-> calculatedFlightTime]

CaseAResult(f) ==
  LET y0 == Y0Of(f)
      thetaRad == toRad(f.theta)
      ux == Mul(f.u, Cos(thetaRad))
      uy == Mul(f.u, Sin(thetaRad))
      tPeak == Div(uy, G)
      calculatedMaxHeight ==
        Sub(Add(y0, Mul(uy, tPeak)), Mul(Mul(Half, G), Pow2(tPeak)))
      calculatedFlightTime ==
        Div(Add(uy, Sqrt(Add(Pow2(uy), Mul(Mul(Num(2), G), y0)))), G)
      calculatedRange == Mul(ux, calculatedFlightTime)
  IN  [u |-> f.u, theta |-> f.theta, y0 |-> y0, ux |-> ux, uy |-> uy,
       range |-> calculatedRange, maxHeight |-> calculatedMaxHeight,
       flightTime |-> calculatedFlightTime]

(* CASE B: sin(2 theta), its guard, the derived u *)
Sin2Theta(f) == Sin(Mul(Num(2), toRad(f.theta)))

(* the guard of CASE B written like the guards of CASE C and CASE D *)
GuardB_Abs(f) == Le(Abs(Sin2Theta(f)), Epsilon)

GuardB(f) == Le(Sin2Theta(f), Epsilon)

CalculatedUB(f) == Sqrt(Div(Mul(f.range, G), Sin2Theta(f)))

(* CASE C and CASE D: sin(theta), the guard, the derived u *)
SinTheta(f) == Sin(toRad(f.theta))

(* the guard of CASE C and CASE D without Math.abs *)
GuardCD_Signed(f) == Le(SinTheta(f), Epsilon)

GuardCD(f) == Le(IF SinTheta(f) = NaN THEN NaN ELSE Abs(SinTheta(f)), Epsilon)

CalculatedUC(f) ==
  Sqrt(Div(Mul(Mul(Num(2), G), f.maxHeight), Pow2(SinTheta(f))))

CalculatedUD(f) == Div(Mul(G, f.flightTime), Mul(Num(2), SinTheta(f)))

(* CASE E: the components, the derived u and theta *)
UxE(f) == Div(f.range, f.flightTime)

UyE(f) == Div(Mul(G, f.flightTime), Num(2))

CalculatedUE(f) == Sqrt(Add(Pow2(UxE(f)), Pow2(UyE(f))))

CalculatedThetaE(f) == toDeg(Atan2(UyE(f), UxE(f)))

(* the argument of the recursive call of each reduction case *)
RecurB(f) == [f EXCEPT !.u = CalculatedUB(f), !.range = null]

RecurC(f) == [f EXCEPT !.u = CalculatedUC(f), !.maxHeight = null]

(* the recursive call of CASE D without the derived u *)
RecurD_NoU(f) == [f EXCEPT !.flightTime = null]

(* the recursive call of CASE D built from u and theta alone *)
RecurD_DropsY0(f) ==
  [f EXCEPT !.u = CalculatedUD(f), !.flightTime = null, !.y0 = null]

RecurD(f) == [f EXCEPT !.u = CalculatedUD(f), !.flightTime = null]

RecurE(f) ==
  [f EXCEPT !.u = CalculatedUE(f), !.theta = CalculatedThetaE(f),
            !.range = null, !.flightTime = null]

(* the function as a whole: the value a call on f returns *)
RECURSIVE solveProjectileSystem(_)
solveProjectileSystem(f) ==
  LET c == MatchCase(f)
  IN  IF c = "A" THEN CaseAResult(f)
      ELSE IF c = "B"
           THEN (IF GuardB(f) THEN NoSolved ELSE solveProjectileSystem(RecurB(f)))
      ELSE IF c = "C"
           THEN (IF GuardCD(f) THEN NoSolved ELSE solveProjectileSystem(RecurC(f)))
      ELSE IF c = "D"
           THEN (IF GuardCD(f) THEN NoSolved ELSE solveProjectileSystem(RecurD(f)))
      ELSE IF c = "E" THEN solveProjectileSystem(RecurE(f))
      ELSE NoSolved

-----------------------------------------------------------------------------
(* generateTrajectory                                                       *)

(* the guard written as vars.flightTime <= 0 alone *)
NoFlight_OnlyCompared(vars) == Le(vars.flightTime, 0)

(* !vars.flightTime || vars.flightTime <= 0 *)
NoFlight(vars) ==
  vars.flightTime = 0 \/ vars.flightTime = NaN \/ Le(vars.flightTime, 0)

(* the sample pushed with the computed height as it is *)
TrajectoryPoint_NoClamp(vars, dt, i) ==
  LET t == Mul(Num(i), dt)
      x == Mul(vars.ux, t)
      y == Sub(Add(vars.y0, Mul(vars.uy, t)), Mul(Mul(Mul(Half, G), t), t))
  IN  [x |-> x, y |-> y, t |-> t]

(* the sample pushed by iteration i of the loop *)
TrajectoryPoint(vars, dt, i) ==
  LET t == Mul(Num(i), dt)
      x == Mul(vars.ux, t)
      y == Sub(Add(vars.y0, Mul(vars.uy, t)), Mul(Mul(Mul(Half, G), t), t))
  IN  [x |-> x, y |-> IF Lt(y, 0) THEN 0 ELSE y, t |-> t]

(* the loop written with i < points *)
generateTrajectory_Exclusive(vars, pts) ==
  IF NoFlight(vars) THEN << >>
  ELSE LET dt == Div(vars.flightTime, Num(pts))
       IN  [k \in 1..pts |-> TrajectoryPoint(vars, dt, k - 1)]

(* the step computed for one interval too many *)
generateTrajectory_ShortStep(vars, pts) ==
  IF NoFlight(vars) THEN << >>
  ELSE LET dt == Div(vars.flightTime, Num(pts + 1))
       IN  [k \in 1..(pts + 1) |-> TrajectoryPoint(vars, dt, k - 1)]

(* the loop started at i = 1 *)
generateTrajectory_FromOne(vars, pts) ==
  IF NoFlight(vars) THEN << >>
  ELSE LET dt == Div(vars.flightTime, Num(pts))
       IN  [k \in 1..(pts + 1) |-> TrajectoryPoint(vars, dt, k)]

generateTrajectory(vars, pts) ==
  IF NoFlight(vars) THEN << >>
  ELSE LET dt == Div(vars.flightTime, Num(pts))
       IN  [k \in 1..(pts + 1) |-> TrajectoryPoint(vars, dt, k - 1)]

-----------------------------------------------------------------------------
(* generateSteps                                                            *)
(*                                                                          *)
(* A Step is its explanation template, its latex template and the numbers   *)
(* substituted into the two, in the order they appear in the source; the    *)
(* templates are the source's strings with "#" for a substituted number and *)
(* without the backslashes of the LaTeX commands.                           *)

(* an optional field that was not supplied *)
undefined == -2147483645

(* n.toFixed(2): n rounded to two decimals; NaN and the infinities print as *)
(* themselves                                                               *)
toFixed2(n) ==
  IF ~IsFinite(n) THEN n
  ELSE Sign(n) * ((Abs(n) + Scale \div 200) \div (Scale \div 100)) * (Scale \div 100)

Step(e, l, v) == [explanation |-> e, latex |-> l, values |-> v]

(* target 'u', inputs.range and inputs.theta present *)
StepsURangeTheta(inp, sv, theta) ==
  << Step("We know the Range ($R$) and Launch Angle ($theta$). We can use the range equation.",
          "R = frac{u^2 sin(2 theta)}{g}", << >>),
     Step("Rearrange the equation to solve for Initial Velocity ($u$):",
          "u = sqrt{frac{R cdot g}{sin(2 theta)}}", << >>),
     Step("Substitute $R = #$, $g = #$, $theta = #^circ$:",
          "u = sqrt{frac{# cdot #}{sin(#)}}",
          <<toFixed2(inp.range), G, toFixed2(theta),
            toFixed2(inp.range), G, Mul(Num(2), theta)>>),
     Step("Calculate the result:", "u approx # text{ m/s}", <<toFixed2(sv.u)>>) >>

(* the maxHeight derivation with the result in a step of its own *)
StepsUHeightTheta_Split(inp, sv, theta) ==
  << Step("We know the Maximum Height ($H$) and Angle ($theta$). We can use the max height equation.",
          "H = frac{u^2 sin^2(theta)}{2g}", << >>),
     Step("Rearrange to solve for $u$:",
          "u = sqrt{frac{2gH}{sin^2(theta)}}", << >>),
     Step("Substitute:",
          "u = sqrt{frac{2 cdot # cdot #}{sin^2(#)}}",
          <<G, toFixed2(inp.maxHeight), toFixed2(theta)>>),
     Step("Calculate the result:", "u approx # text{ m/s}", <<toFixed2(sv.u)>>) >>

(* target 'u', inputs.maxHeight and inputs.theta present *)
StepsUHeightTheta(inp, sv, theta) ==
  << Step("We know the Maximum Height ($H$) and Angle ($theta$). We can use the max height equation.",
          "H = frac{u^2 sin^2(theta)}{2g}", << >>),
     Step("Rearrange to solve for $u$:",
          "u = sqrt{frac{2gH}{sin^2(theta)}}", << >>),
     Step("Substitute and solve:",
          "u = sqrt{frac{2 cdot # cdot #}{sin^2(#)}} approx # text{ m/s}",
          <<G, toFixed2(inp.maxHeight), toFixed2(theta), toFixed2(sv.u)>>) >>

(* target 'u', inputs.flightTime and inputs.theta present *)
StepsUTimeTheta(inp, sv, theta) ==
  << Step("We know Flight Time ($t$) and Angle ($theta$). Use the time of flight equation.",
          "t = frac{2 u sin(theta)}{g}", << >>),
     Step("Rearrange to solve for $u$:",
          "u = frac{g cdot t}{2 sin(theta)}", << >>),
     Step("Substitute and solve:",
          "u = frac{# cdot #}{2 sin(#)} approx # text{ m/s}",
          <<G, toFixed2(inp.flightTime), toFixed2(theta), toFixed2(sv.u)>>) >>

(* target 'u', inputs.range and inputs.flightTime present *)
StepsURangeTime(inp, sv) ==
  << Step("We know Range ($R$) and Flight Time ($t$), but not the angle or velocity. We must find components first.",
          "u_x = frac{R}{t}, quad u_y = frac{gt}{2}", << >>),
     Step("Calculate components:",
          "u_x = frac{#}{#} = #, quad u_y = frac{# cdot #}{2} = #",
          <<toFixed2(inp.range), toFixed2(inp.flightTime), toFixed2(sv.ux),
            G, toFixed2(inp.flightTime), toFixed2(sv.uy)>>),
     Step("Combine components to find total velocity $u$:",
          "u = sqrt{u_x^2 + u_y^2}", << >>),
     Step("Solve:", "u = sqrt{#^2 + #^2} approx # text{ m/s}",
          <<toFixed2(sv.ux), toFixed2(sv.uy), toFixed2(sv.u)>>) >>

(* target 'u' without the branch for range and flightTime *)
StepsU_NoRangeTime(inp, sv, theta) ==
  IF inp.range # null /\ inp.theta # null THEN StepsURangeTheta(inp, sv, theta)
  ELSE IF inp.maxHeight # null /\ inp.theta # null
       THEN StepsUHeightTheta(inp, sv, theta)
  ELSE IF inp.flightTime # null /\ inp.theta # null
       THEN StepsUTimeTheta(inp, sv, theta)
  ELSE << >>

(* target 'u' with the pattern range and flightTime tested first *)
StepsU_RangeTimeFirst(inp, sv, theta) ==
  IF inp.range # null /\ inp.flightTime # null THEN StepsURangeTime(inp, sv)
  ELSE IF inp.range # null /\ inp.theta # null
       THEN StepsURangeTheta(inp, sv, theta)
  ELSE IF inp.maxHeight # null /\ inp.theta # null
       THEN StepsUHeightTheta(inp, sv, theta)
  ELSE IF inp.flightTime # null /\ inp.theta # null
       THEN StepsUTimeTheta(inp, sv, theta)
  ELSE << >>

(* target 'u': the if-chain over the input patterns *)
StepsU(inp, sv, theta) ==
  IF inp.range # null /\ inp.theta # null THEN StepsURangeTheta(inp, sv, theta)
  ELSE IF inp.maxHeight # null /\ inp.theta # null
       THEN StepsUHeightTheta(inp, sv, theta)
  ELSE IF inp.flightTime # null /\ inp.theta # null
       THEN StepsUTimeTheta(inp, sv, theta)
  ELSE IF inp.range # null /\ inp.flightTime # null THEN StepsURangeTime(inp, sv)
  ELSE << >>

(* target 'theta' explained whatever the inputs were *)
StepsTheta_Unconditional(inp, sv) ==
  << Step("We calculated the horizontal and vertical velocity components ($u_x, u_y$) from Range and Time.",
          "u_x = #, quad u_y = #", <<toFixed2(sv.ux), toFixed2(sv.uy)>>),
     Step("Use trigonometry to find the angle $theta$:",
          "theta = tan^{-1}left(frac{u_y}{u_x}right)", << >>),
     Step("Substitute and solve:",
          "theta = tan^{-1}left(frac{#}{#}right) approx #^circ",
          <<toFixed2(sv.uy), toFixed2(sv.ux), toFixed2(sv.theta)>>) >>

(* target 'theta' *)
StepsTheta(inp, sv) ==
  IF inp.range # null /\ inp.flightTime # null
  THEN << Step("We calculated the horizontal and vertical velocity components ($u_x, u_y$) from Range and Time.",
               "u_x = #, quad u_y = #", <<toFixed2(sv.ux), toFixed2(sv.uy)>>),
          Step("Use trigonometry to find the angle $theta$:",
               "theta = tan^{-1}left(frac{u_y}{u_x}right)", << >>),
          Step("Substitute and solve:",
               "theta = tan^{-1}left(frac{#}{#}right) approx #^circ",
               <<toFixed2(sv.uy), toFixed2(sv.ux), toFixed2(sv.theta)>>) >>
  ELSE << >>

(* target 'range' *)
StepsRange(sv) ==
  << Step("Use the standard Range equation for projectile motion.",
          "R = frac{u^2 sin(2 theta)}{g}", << >>),
     Step("Substitute $u = #$ and $theta = #$:",
          "R = frac{#^2 sin(2 cdot #)}{#}",
          <<toFixed2(sv.u), toFixed2(sv.theta),
            toFixed2(sv.u), toFixed2(sv.theta), G>>),
     Step("Solve:", "R approx # text{ m}", <<toFixed2(sv.range)>>) >>

(* target 'maxHeight' *)
StepsMaxHeight(sv) ==
  << Step("Use the Maximum Height equation.",
          "H = frac{u^2 sin^2(theta)}{2g}", << >>),
     Step("Substitute $u = #$ and $theta = #$:",
          "H = frac{#^2 sin^2(#)}{2 cdot #}",
          <<toFixed2(sv.u), toFixed2(sv.theta),
            toFixed2(sv.u), toFixed2(sv.theta), G>>),
     Step("Solve:", "H approx # text{ m}", <<toFixed2(sv.maxHeight)>>) >>

(* target 'flightTime' *)
StepsFlightTime(sv) ==
  << Step("The time of flight is determined by the vertical component of velocity ($u_y$).",
          "t = frac{2 u_y}{g} = frac{2u sin(theta)}{g}", << >>),
     Step("First, find the vertical velocity $u_y$:",
          "u_y = u sin(theta) = # sin(#) approx #",
          <<toFixed2(sv.u), toFixed2(sv.theta), toFixed2(sv.uy)>>),
     Step("Substitute $u_y$ into the time equation:",
          "t = frac{2 cdot #}{#}", <<toFixed2(sv.uy), G>>),
     Step("Solve:", "t approx # text{ s}", <<toFixed2(sv.flightTime)>>) >>

(* solved.y0 || 0 *)
SolvedY0(sv) == IF sv.y0 = null \/ sv.y0 = 0 \/ sv.y0 = NaN THEN 0 ELSE sv.y0

(* target 'heightAtTime' with extraParams.time = t *)
StepsHeightAtTime(sv, t) ==
  LET uy == Mul(sv.u, Sin(toRad(sv.theta)))
      y == Sub(Add(SolvedY0(sv), Mul(uy, t)), Mul(Mul(Half, G), Pow2(t)))
  IN  << Step("We need to find the vertical position $s_y$ at time $t = #$ s.",
              "s_y = u_y t - frac{1}{2} g t^2", <<toFixed2(t)>>),
         Step("First, ensure we have the initial vertical velocity $u_y$:",
              "u_y = u sin(theta) = # sin(#) approx # text{ m/s}",
              <<toFixed2(sv.u), toFixed2(sv.theta), toFixed2(uy)>>),
         Step("Now substitute values into the displacement equation:",
              "s_y = (# cdot #) - (0.5 cdot # cdot #^2)",
              <<toFixed2(uy), toFixed2(t), G, toFixed2(t)>>),
         Step("Calculate:", "s_y approx # text{ m}", <<toFixed2(y)>>) >>

(* target 'velocityAtTime' with extraParams.time = t *)
StepsVelocityAtTime(sv, t) ==
  LET uy0 == Mul(sv.u, Sin(toRad(sv.theta)))
      uyt == Sub(uy0, Mul(G, t))
      ux == Mul(sv.u, Cos(toRad(sv.theta)))
      v == Sqrt(Add(Mul(ux, ux), Mul(uyt, uyt)))
  IN  << Step("To find velocity at $t = #$ s, we need both horizontal ($v_x$) and vertical ($v_y$) components.",
              "v = sqrt{v_x^2 + v_y^2}", <<toFixed2(t)>>),
         Step("Horizontal velocity is constant:",
              "v_x = u_x = u cos(theta) = # cos(#) approx # text{ m/s}",
              <<toFixed2(sv.u), toFixed2(sv.theta), toFixed2(ux)>>),
         Step("Vertical velocity changes due to gravity:",
              "v_y = u_y - gt = (# sin(#)) - (# cdot #)",
              <<toFixed2(sv.u), toFixed2(sv.theta), G, toFixed2(t)>>),
         Step("Calculate $v_y$:", "v_y approx # - # = # text{ m/s}",
              <<toFixed2(uy0), toFixed2(Mul(G, t)), toFixed2(uyt)>>),
         Step("Combine components to find total speed:",
              "v = sqrt{(#)^2 + (#)^2} approx # text{ m/s}",
              <<toFixed2(ux), toFixed2(uyt), toFixed2(v)>>) >>

(* target 'timeToMaxHeight' *)
StepsTimeToMaxHeight(sv) ==
  LET tPeak == Div(sv.flightTime, Num(2))
  IN  << Step("At maximum height, the vertical velocity is zero ($v_y = 0$).",
              "v_y = u_y - gt = 0 Rightarrow t = frac{u_y}{g}", << >>),
         Step("Calculate initial vertical velocity $u_y$:",
              "u_y = u sin(theta) = # sin(#) approx #",
              <<toFixed2(sv.u), toFixed2(sv.theta), toFixed2(sv.uy)>>),
         Step("Divide by gravity:", "t = frac{#}{#}", <<toFixed2(sv.uy), G>>),
         Step("Solve:", "t approx # text{ s}", <<toFixed2(tPeak)>>) >>

(* target 'distanceAtTime' with extraParams.time = t *)
StepsDistanceAtTime(sv, t) ==
  LET ux == Mul(sv.u, Cos(toRad(sv.theta)))
      x == Mul(ux, t)
  IN  << Step("We want to find the horizontal distance $s_x$ at time $t = #$ s. Horizontal velocity is constant.",
              "s_x = u_x cdot t", <<toFixed2(t)>>),
         Step("Calculate horizontal velocity $u_x$:",
              "u_x = u cos(theta) = # cos(#) approx # text{ m/s}",
              <<toFixed2(sv.u), toFixed2(sv.theta), toFixed2(ux)>>),
         Step("Substitute and solve:", "s_x = # cdot # approx # text{ m}",
              <<toFixed2(ux), toFixed2(t), toFixed2(x)>>) >>

(* target 'timeToDistance' with extraParams.distance = x *)
StepsTimeToDistance(sv, x) ==
  LET ux == Mul(sv.u, Cos(toRad(sv.theta)))
      t == Div(x, ux)
  IN  << Step("We want to find the time $t$ it takes to reach a horizontal distance $s_x = #$ m.",
              "s_x = u_x cdot t Rightarrow t = frac{s_x}{u_x}", <<toFixed2(x)>>),
         Step("Calculate horizontal velocity $u_x$:",
              "u_x = u cos(theta) = # cos(#) approx # text{ m/s}",
              <<toFixed2(sv.u), toFixed2(sv.theta), toFixed2(ux)>>),
         Step("Substitute and solve:", "t = frac{#}{#} approx # text{ s}",
              <<toFixed2(x), toFixed2(ux), toFixed2(t)>>) >>

(* the lab's extraValues.tPeak, the correct value of the timeToMaxHeight quiz *)
ExtraValuesTPeak(sv) == Div(Mul(sv.u, Sin(toRad(sv.theta))), G)

(* extraParams that were not passed *)
NoExtra == [time |-> undefined, distance |-> undefined]

(* the ten keys generateSteps recognises *)
KnownTargets ==
  {"u", "theta", "range", "maxHeight", "flightTime", "heightAtTime",
   "velocityAtTime", "timeToMaxHeight", "distanceAtTime", "timeToDistance"}

(* the targets tried: the ten keys and three strings outside them *)
TargetVals == KnownTargets \cup {"y0", "ux", "speed"}

(* the extraParams tried *)
ExtraVals ==
  {NoExtra,
   [time |-> Num(1), distance |-> undefined],
   [time |-> undefined, distance |-> Num(10)]}

(* the if-chain with timeToMaxHeight guarded by extraParams.time as well *)
generateSteps_PeakNeedsTime(tgt, inp, sv, extraParams) ==
  LET theta == IF inp.theta # null THEN inp.theta ELSE sv.theta
  IN  IF tgt = "u" THEN StepsU(inp, sv, theta)
      ELSE IF tgt = "theta" THEN StepsTheta(inp, sv)
      ELSE IF tgt = "range" THEN StepsRange(sv)
      ELSE IF tgt = "maxHeight" THEN StepsMaxHeight(sv)
      ELSE IF tgt = "flightTime" THEN StepsFlightTime(sv)
      ELSE IF tgt = "heightAtTime" /\ extraParams.time # undefined
           THEN StepsHeightAtTime(sv, extraParams.time)
      ELSE IF tgt = "velocityAtTime" /\ extraParams.time # undefined
           THEN StepsVelocityAtTime(sv, extraParams.time)
      ELSE IF tgt = "timeToMaxHeight" /\ extraParams.time # undefined
           THEN StepsTimeToMaxHeight(sv)
      ELSE IF tgt = "distanceAtTime" /\ extraParams.time # undefined
           THEN StepsDistanceAtTime(sv, extraParams.time)
      ELSE IF tgt = "timeToDistance" /\ extraParams.distance # undefined
           THEN StepsTimeToDistance(sv, extraParams.distance)
      ELSE << >>

(* the if-chain ending in the range derivation instead of nothing *)
generateSteps_DefaultsToRange(tgt, inp, sv, extraParams) ==
  LET theta == IF inp.theta # null THEN inp.theta ELSE sv.theta
  IN  IF tgt = "u" THEN StepsU(inp, sv, theta)
      ELSE IF tgt = "theta" THEN StepsTheta(inp, sv)
      ELSE IF tgt = "maxHeight" THEN StepsMaxHeight(sv)
      ELSE IF tgt = "flightTime" THEN StepsFlightTime(sv)
      ELSE IF tgt = "heightAtTime" /\ extraParams.time # undefined
           THEN StepsHeightAtTime(sv, extraParams.time)
      ELSE IF tgt = "velocityAtTime" /\ extraParams.time # undefined
           THEN StepsVelocityAtTime(sv, extraParams.time)
      ELSE IF tgt = "timeToMaxHeight" THEN StepsTimeToMaxHeight(sv)
      ELSE IF tgt = "distanceAtTime" /\ extraParams.time # undefined
           THEN StepsDistanceAtTime(sv, extraParams.time)
      ELSE IF tgt = "timeToDistance" /\ extraParams.distance # undefined
           THEN StepsTimeToDistance(sv, extraParams.distance)
      ELSE StepsRange(sv)

(* the function as a whole: the if-chain over target *)
generateSteps(tgt, inp, sv, extraParams) ==
  LET theta == IF inp.theta # null THEN inp.theta ELSE sv.theta
  IN  IF tgt = "u" THEN StepsU(inp, sv, theta)
      ELSE IF tgt = "theta" THEN StepsTheta(inp, sv)
      ELSE IF tgt = "range" THEN StepsRange(sv)
      ELSE IF tgt = "maxHeight" THEN StepsMaxHeight(sv)
      ELSE IF tgt = "flightTime" THEN StepsFlightTime(sv)
      ELSE IF tgt = "heightAtTime" /\ extraParams.time # undefined
           THEN StepsHeightAtTime(sv, extraParams.time)
      ELSE IF tgt = "velocityAtTime" /\ extraParams.time # undefined
           THEN StepsVelocityAtTime(sv, extraParams.time)
      ELSE IF tgt = "timeToMaxHeight" THEN StepsTimeToMaxHeight(sv)
      ELSE IF tgt = "distanceAtTime" /\ extraParams.time # undefined
           THEN StepsDistanceAtTime(sv, extraParams.time)
      ELSE IF tgt = "timeToDistance" /\ extraParams.distance # undefined
           THEN StepsTimeToDistance(sv, extraParams.distance)
      ELSE << >>

-----------------------------------------------------------------------------
(* ProjectileLab: the text of numbers                                       *)
(*                                                                          *)
(* A JavaScript string is the sequence of its characters.  The strings of   *)
(* the model carry no exponent part and no leading white space.             *)

DigitChars == <<"0", "1", "2", "3", "4", "5", "6", "7", "8", "9">>

IsDigit(c) == \E d \in 1..10 : DigitChars[d] = c

DigitValue(c) == (CHOOSE d \in 1..10 : DigitChars[d] = c) - 1

(* the decimal digits of a natural number *)
RECURSIVE NatToString(_)
NatToString(n) ==
  IF n < 10 THEN <<DigitChars[n + 1]>>
  ELSE NatToString(n \div 10) \o <<DigitChars[(n % 10) + 1]>>

(* the digits of the fraction f / 10^w, w digits wide, trailing zeros cut *)
RECURSIVE FractionToString(_, _)
FractionToString(f, w) ==
  IF f = 0 THEN << >>
  ELSE <<DigitChars[(f \div w) + 1]>> \o FractionToString((f % w) * 10, w)

(* Number.prototype.toString: the shortest text that reads back as n *)
NumberToString(n) ==
  IF n = NaN THEN <<"N", "a", "N">>
  ELSE IF n = PosInf THEN <<"I", "n", "f", "i", "n", "i", "t", "y">>
  ELSE IF n = NegInf THEN <<"-", "I", "n", "f", "i", "n", "i", "t", "y">>
  ELSE (IF n < 0 THEN <<"-">> ELSE << >>)
       \o NatToString(Abs(n) \div Scale)
       \o (IF Abs(n) % Scale = 0 THEN << >>
           ELSE <<".">> \o FractionToString(Abs(n) % Scale, Scale \div 10))

(* the number of digit characters of s from position i on *)
RECURSIVE DigitRun(_, _)
DigitRun(s, i) ==
  IF i > Len(s) \/ ~IsDigit(s[i]) THEN 0 ELSE 1 + DigitRun(s, i + 1)

(* the natural number written by the k digits of s from position i on,     *)
(* PosInf once it is beyond the finite range                               *)
RECURSIVE DigitsValue(_, _, _, _)
DigitsValue(s, i, k, acc) ==
  IF acc > MaxFinite \div Scale THEN PosInf
  ELSE IF k = 0 THEN acc
  ELSE DigitsValue(s, i + 1, k - 1, 10 * acc + DigitValue(s[i]))

(* the fraction written by the k digits of s from position i on, in units  *)
(* of 1 / Scale and rounded to the nearest unit; unit is the weight of the *)
(* digit at position i                                                     *)
RECURSIVE FractionValue(_, _, _, _)
FractionValue(s, i, k, unit) ==
  IF k = 0 THEN 0
  ELSE IF unit = 0 THEN (IF DigitValue(s[i]) >= 5 THEN 1 ELSE 0)
  ELSE DigitValue(s[i]) * unit + FractionValue(s, i + 1, k - 1, unit \div 10)

(* s has the characters of p from position i on *)
HasPrefixAt(s, i, p) ==
  /\ Len(s) >= i + Len(p) - 1
  /\ \A k \in 1..Len(p) : s[i + k - 1] = p[k]

(* parseFloat: the number written by the longest numeric prefix of s, NaN  *)
(* when there is none                                                      *)
parseFloat(s) ==
  LET signed == Len(s) >= 1 /\ s[1] \in {"-", "+"}
      sgn == IF signed /\ s[1] = "-" THEN -1 ELSE 1
      i == IF signed THEN 2 ELSE 1
      intLen == DigitRun(s, i)
      dot == i + intLen
      fracLen == IF dot <= Len(s) /\ s[dot] = "." THEN DigitRun(s, dot + 1) ELSE 0
      int == DigitsValue(s, i, intLen, 0)
      frac == FractionValue(s, dot + 1, fracLen, Scale \div 10)
      magnitude == IF int = PosInf THEN PosInf ELSE Sat(int * Scale + frac)
  IN  IF HasPrefixAt(s, i, <<"I", "n", "f", "i", "n", "i", "t", "y">>)
      THEN (IF sgn < 0 THEN NegInf ELSE PosInf)
      ELSE IF intLen + fracLen = 0 THEN NaN
      ELSE IF magnitude = PosInf THEN (IF sgn < 0 THEN NegInf ELSE PosInf)
      ELSE sgn * magnitude

-----------------------------------------------------------------------------
(* ProjectileLab: the query string, canSimulate, randomizeInputs            *)

Keys == {"u", "theta", "y0", "range", "maxHeight", "flightTime"}

(* useState<ProjectileState>: the inputs a mounted lab starts with *)
InitialInputs ==
  [u |-> null, theta |-> null, y0 |-> 0, range |-> null,
   maxHeight |-> null, flightTime |-> null]

(* The query string is the text of each of the six keys, << >> for a key   *)
(* that is absent or empty: params.get(key) is falsy in both cases, and a  *)
(* query string of empty values alone loads the initial inputs again.      *)
NoSearch == [k \in Keys |-> << >>]

(* updateUrl with the fields tested for truth: a 0 is not written *)
updateUrl_SkipsZero(state) ==
  [k \in Keys |->
     IF state[k] # null /\ state[k] # 0
     THEN NumberToString(state[k]) ELSE << >>]

(* updateUrl: the query string pushed for state *)
updateUrl(state) ==
  [k \in Keys |->
     IF state[k] # null /\ (k = "y0" => state[k] # 0)
     THEN NumberToString(state[k]) ELSE << >>]

(* Array.from(params.keys()).length > 0 *)
hasParams(search) == \E k \in Keys : search[k] # << >>

(* paramInputs of the initial load effect *)
paramInputs(search) ==
  [k \in Keys |->
     IF search[k] # << >> THEN parseFloat(search[k])
     ELSE IF k = "y0" THEN 0 ELSE null]

(* canSimulate without the flightTime and theta pair *)
canSimulate_NoTimeTheta(inp) ==
  \/ inp.u # null /\ inp.theta # null
  \/ inp.range # null /\ inp.theta # null
  \/ inp.maxHeight # null /\ inp.theta # null
  \/ inp.range # null /\ inp.flightTime # null

canSimulate(inp) ==
  \/ inp.u # null /\ inp.theta # null
  \/ inp.range # null /\ inp.theta # null
  \/ inp.maxHeight # null /\ inp.theta # null
  \/ inp.flightTime # null /\ inp.theta # null
  \/ inp.range # null /\ inp.flightTime # null

(* 0.2 + Math.random() * 0.6 of a solved quantity q *)
SafeTarget(q, rnd) == Mul(q, Add(Scale \div 5, Mul(rnd, 6 * (Scale \div 10))))

Scenarios == <<"standard", "range_theta", "height_theta", "range_time">>

(* Math.floor(Math.random() * scenarios.length) + 1, rnd in [0, 1) *)
ScenarioIndex(rnd) == ((rnd * Len(Scenarios)) \div Scale) + 1

(* fmt: parseFloat(n.toFixed(2)) *)
fmt(n) == parseFloat(NumberToString(toFixed2(n)))

(* newInputs whose last scenario gives range and maxHeight *)
newInputs_RangeHeight(rndScenario, rndU, rndTheta) ==
  LET scenario == Scenarios[ScenarioIndex(rndScenario)]
      baseU == Add(Num(15), Mul(rndU, Num(35)))
      baseTheta == Add(Num(30), Mul(rndTheta, Num(45)))
      rad == Div(Mul(baseTheta, PI), Num(180))
      trueRange == Div(Mul(Pow2(baseU), Sin(Mul(Num(2), rad))), G)
      trueHeight == Div(Mul(Pow2(baseU), Pow2(Sin(rad))), Mul(Num(2), G))
  IN  IF scenario = "standard"
      THEN [InitialInputs EXCEPT !.u = fmt(baseU), !.theta = fmt(baseTheta)]
      ELSE IF scenario = "range_theta"
      THEN [InitialInputs EXCEPT !.range = fmt(trueRange),
                                 !.theta = fmt(baseTheta)]
      ELSE IF scenario = "height_theta"
      THEN [InitialInputs EXCEPT !.maxHeight = fmt(trueHeight),
                                 !.theta = fmt(baseTheta)]
      ELSE [InitialInputs EXCEPT !.range = fmt(trueRange),
                                 !.maxHeight = fmt(trueHeight)]

(* newInputs of randomizeInputs for the three random numbers drawn *)
newInputs(rndScenario, rndU, rndTheta) ==
  LET scenario == Scenarios[ScenarioIndex(rndScenario)]
      baseU == Add(Num(15), Mul(rndU, Num(35)))
      baseTheta == Add(Num(30), Mul(rndTheta, Num(45)))
      rad == Div(Mul(baseTheta, PI), Num(180))
      trueRange == Div(Mul(Pow2(baseU), Sin(Mul(Num(2), rad))), G)
      trueHeight == Div(Mul(Pow2(baseU), Pow2(Sin(rad))), Mul(Num(2), G))
      trueTime == Div(Mul(Mul(Num(2), baseU), Sin(rad)), G)
  IN  IF scenario = "standard"
      THEN [InitialInputs EXCEPT !.u = fmt(baseU), !.theta = fmt(baseTheta)]
      ELSE IF scenario = "range_theta"
      THEN [InitialInputs EXCEPT !.range = fmt(trueRange),
                                 !.theta = fmt(baseTheta)]
      ELSE IF scenario = "height_theta"
      THEN [InitialInputs EXCEPT !.maxHeight = fmt(trueHeight),
                                 !.theta = fmt(baseTheta)]
      ELSE [InitialInputs EXCEPT !.range = fmt(trueRange),
                                 !.flightTime = fmt(trueTime)]

-----------------------------------------------------------------------------
(* The state machine: one call of solveProjectileSystem on inputs, one step *)
(* per activation, then generateTrajectory or generateSteps on the solved    *)
(* state                                                                    *)

VARIABLES
  inputs,   \* the ProjectileState passed to the outermost call
  stack,    \* the arguments of the activations, outermost first
  trace,    \* the case each activation took
  solved,   \* the value returned: a SolvedVariables, or NoSolved for null
  pc,       \* "solve", "solved", "unsolvable", "sampled", "explained";
            \* of a lab: "mount" before the initial load effect, then "ready"
  points,   \* the points argument of generateTrajectory
  data,     \* the TrajectoryPoint[] returned by generateTrajectory
  target,   \* the target argument of generateSteps
  extra,    \* the extraParams argument of generateSteps
  steps,    \* the Step[] returned by generateSteps
  solvedData,            \* the lab's solvedData, NoSolved for null
  mode,                  \* "input" or "simulation"
  randomTimeTarget,      \* a time, or null
  randomDistanceTarget,  \* a distance, or null
  search,   \* window.location.search
  notice,   \* what the last handler told: "none", "alert", "console.warn"
  edits     \* the number of calls of handleInputChange so far

(* the state of the calls of the three functions of utils.ts *)
callVars == <<stack, trace, solved, points, data, target, extra, steps>>

(* the state of a ProjectileLab besides its inputs *)
labVars ==
  <<solvedData, mode, randomTimeTarget, randomDistanceTarget, search, notice,
    edits>>

vars == <<inputs, pc, callVars, labVars>>

Top == stack[Len(stack)]

Init ==
  /\ inputs \in ProjectileState
  /\ stack = <<inputs>>
  /\ trace = << >>
  /\ solved = NoSolved
  /\ pc = "solve"
  /\ points = DefaultPoints
  /\ data = << >>
  /\ target = ""
  /\ extra = NoExtra
  /\ steps = << >>
  /\ solvedData = NoSolved
  /\ mode = "input"
  /\ randomTimeTarget = null
  /\ randomDistanceTarget = null
  /\ search = NoSearch
  /\ notice = "none"
  /\ edits = 0

(* an activation returns value r; every caller returns its callee's value *)
Return(c, r) ==
  /\ trace' = Append(trace, c)
  /\ solved' = r
  /\ pc' = IF r = NoSolved THEN "unsolvable" ELSE "solved"
  /\ UNCHANGED <<inputs, stack, points, data, target, extra, steps, labVars>>

(* an activation calls solveProjectileSystem(f) *)
Recurse(c, f) ==
  /\ trace' = Append(trace, c)
  /\ stack' = Append(stack, f)
  /\ UNCHANGED <<inputs, solved, pc, points, data, target, extra, steps, labVars>>

CaseA ==
  /\ pc = "solve"
  /\ MatchCase(Top) = "A"
  /\ Return("A", CaseAResult(Top))

CaseB ==
  /\ pc = "solve"
  /\ MatchCase(Top) = "B"
  /\ IF GuardB(Top) THEN Return("B", NoSolved) ELSE Recurse("B", RecurB(Top))

CaseC ==
  /\ pc = "solve"
  /\ MatchCase(Top) = "C"
  /\ IF GuardCD(Top) THEN Return("C", NoSolved) ELSE Recurse("C", RecurC(Top))

CaseD ==
  /\ pc = "solve"
  /\ MatchCase(Top) = "D"
  /\ IF GuardCD(Top) THEN Return("D", NoSolved) ELSE Recurse("D", RecurD(Top))

CaseE ==
  /\ pc = "solve"
  /\ MatchCase(Top) = "E"
  /\ Recurse("E", RecurE(Top))

NoCase ==
  /\ pc = "solve"
  /\ MatchCase(Top) = "none"
  /\ Return("none", NoSolved)

GenerateTrajectory ==
  /\ pc = "solved"
  /\ \E n \in PointsVals :
       /\ points' = n
       /\ data' = generateTrajectory(solved, n)
  /\ pc' = "sampled"
  /\ UNCHANGED <<inputs, stack, trace, solved, target, extra, steps, labVars>>

(* a QuizCard calls generateSteps(variableKey, inputs, solvedData, extraParams) *)
GenerateSteps ==
  /\ pc = "solved"
  /\ \E tgt \in TargetVals, ex \in ExtraVals :
       /\ target' = tgt
       /\ extra' = ex
       /\ steps' = generateSteps(tgt, inputs, solved, ex)
  /\ pc' = "explained"
  /\ UNCHANGED <<inputs, stack, trace, solved, points, data, labVars>>

Next ==
  \/ CaseA
  \/ CaseB
  \/ CaseC
  \/ CaseD
  \/ CaseE
  \/ NoCase
  \/ GenerateTrajectory

Spec == Init /\ [][Next]_vars

(* the same call of the solver, followed by generateSteps *)
NextSteps ==
  \/ CaseA
  \/ CaseB
  \/ CaseC
  \/ CaseD
  \/ CaseE
  \/ NoCase
  \/ GenerateSteps

SpecSteps == Init /\ [][NextSteps]_vars

-----------------------------------------------------------------------------
(* ProjectileLab: the component from its mount on.  The handlers call       *)
(* solveProjectileSystem as a function.  Quiz progress (correctGuesses) and *)
(* the chart toggles (chartOverrides) are left out: no handler below reads  *)
(* them.                                                                    *)

(* the query strings a lab is opened with *)
SearchVals ==
  { NoSearch,
    [NoSearch EXCEPT !.u = <<"2", "0">>, !.theta = <<"4", "5", ".", "5">>],
    [NoSearch EXCEPT !.range = <<"2", "0">>, !.theta = <<"0">>],
    [NoSearch EXCEPT !.u = <<"a", "b", "c">>, !.theta = <<"2", "0">>],
    [NoSearch EXCEPT !.range = <<"2", "0">>, !.flightTime = <<"0">>],
    [NoSearch EXCEPT !.y0 = <<"-", "5">>, !.maxHeight = <<"1", "2", "m">>,
                     !.theta = <<"2", "0">>] }

(* the values an <input type="number"> hands to onChange: the empty string *)
(* or the text of a number                                                 *)
TypedVals == { << >>, <<"0">>, <<"2", "0">> }

(* the values of Math.random() tried: for the base velocity and angle of   *)
(* randomizeInputs, for its scenario, for the quiz targets of runSimulation *)
RandomVals == {0, 3333}

ScenarioRandomVals == {0, 2500, 5000, 7500}

TargetRandomVals == {3333}

(* the inputs randomizeInputs can produce from the random numbers tried *)
RandomizedInputs ==
  { newInputs(rndScenario, rndU, rndTheta) :
      rndScenario \in ScenarioRandomVals, rndU \in RandomVals,
      rndTheta \in RandomVals }

(* the number of calls of handleInputChange in a behaviour *)
MaxEdits == 2

InitLab ==
  /\ inputs = InitialInputs
  /\ solvedData = NoSolved
  /\ mode = "input"
  /\ randomTimeTarget = null
  /\ randomDistanceTarget = null
  /\ search \in SearchVals
  /\ notice = "none"
  /\ edits = 0
  /\ pc = "mount"
  /\ stack = << >>
  /\ trace = << >>
  /\ solved = NoSolved
  /\ points = DefaultPoints
  /\ data = << >>
  /\ target = ""
  /\ extra = NoExtra
  /\ steps = << >>

(* runSimulation(config) *)
runSimulation(config) ==
  \E result \in {solveProjectileSystem(config)} :
    IF result # NoSolved
    THEN /\ solvedData' = result
         /\ mode' = "simulation"
         /\ \E rnd \in TargetRandomVals :
              randomTimeTarget' = SafeTarget(result.flightTime, rnd)
         /\ \E rnd \in TargetRandomVals :
              randomDistanceTarget' = SafeTarget(result.range, rnd)
         /\ notice' = "none"
    ELSE /\ notice' = "console.warn"
         /\ UNCHANGED <<solvedData, mode, randomTimeTarget,
                        randomDistanceTarget>>

(* the initial load effect *)
InitialLoad ==
  /\ pc = "mount"
  /\ pc' = "ready"
  /\ IF hasParams(search)
     THEN /\ inputs' = paramInputs(search)
          /\ IF solveProjectileSystem(paramInputs(search)) # NoSolved
             THEN runSimulation(paramInputs(search))
             ELSE UNCHANGED <<solvedData, mode, randomTimeTarget,
                             randomDistanceTarget, notice>>
     ELSE UNCHANGED <<inputs, solvedData, mode, randomTimeTarget,
                      randomDistanceTarget, notice>>
  /\ UNCHANGED <<search, edits, callVars>>

(* handleInputChange without the return to input mode *)
HandleInputChange_KeepsMode ==
  /\ pc = "ready"
  /\ edits < MaxEdits
  /\ \E key \in Keys, value \in TypedVals :
       LET numVal == IF value = << >> THEN null ELSE parseFloat(value)
           newState == [inputs EXCEPT ![key] = numVal]
       IN  /\ inputs' = newState
           /\ IF mode = "simulation"
              THEN /\ search' = updateUrl(newState)
                   /\ UNCHANGED <<mode, solvedData>>
              ELSE UNCHANGED <<mode, solvedData, search>>
  /\ notice' = "none"
  /\ edits' = edits + 1
  /\ UNCHANGED <<pc, randomTimeTarget, randomDistanceTarget, callVars>>

(* handleInputChange(key, value) *)
HandleInputChange ==
  /\ pc = "ready"
  /\ edits < MaxEdits
  /\ \E key \in Keys, value \in TypedVals :
       LET numVal == IF value = << >> THEN null ELSE parseFloat(value)
           newState == [inputs EXCEPT ![key] = numVal]
       IN  /\ inputs' = newState
           /\ IF mode = "simulation"
              THEN /\ mode' = "input"
                   /\ solvedData' = NoSolved
                   /\ search' = updateUrl(newState)
              ELSE UNCHANGED <<mode, solvedData, search>>
  /\ notice' = "none"
  /\ edits' = edits + 1
  /\ UNCHANGED <<pc, randomTimeTarget, randomDistanceTarget, callVars>>

(* startSimulation, the handler of the Launch button shown in input mode *)
StartSimulation ==
  /\ pc = "ready"
  /\ mode = "input"
  /\ IF canSimulate(inputs)
     THEN /\ search' = updateUrl(inputs)
          /\ runSimulation(inputs)
     ELSE /\ notice' = "alert"
          /\ UNCHANGED <<search, solvedData, mode, randomTimeTarget,
                         randomDistanceTarget>>
  /\ UNCHANGED <<inputs, pc, edits, callVars>>

(* randomizeInputs without setSolvedData(null) *)
RandomizeInputs_KeepsSolved ==
  /\ pc = "ready"
  /\ mode' = "input"
  /\ randomTimeTarget' = null
  /\ randomDistanceTarget' = null
  /\ notice' = "none"
  /\ UNCHANGED <<solvedData, pc, edits, callVars>>
  /\ inputs' \in RandomizedInputs
  /\ search' = updateUrl(inputs')

(* randomizeInputs, the handler of Randomize and of New Scenario *)
RandomizeInputs ==
  /\ pc = "ready"
  /\ mode' = "input"
  /\ solvedData' = NoSolved
  /\ randomTimeTarget' = null
  /\ randomDistanceTarget' = null
  /\ notice' = "none"
  /\ UNCHANGED <<pc, edits, callVars>>
  /\ inputs' \in RandomizedInputs
  /\ search' = updateUrl(inputs')

(* the page is loaded again with the query string it has *)
Reload ==
  /\ pc = "ready"
  /\ pc' = "mount"
  /\ inputs' = InitialInputs
  /\ solvedData' = NoSolved
  /\ mode' = "input"
  /\ randomTimeTarget' = null
  /\ randomDistanceTarget' = null
  /\ notice' = "none"
  /\ UNCHANGED <<search, edits, callVars>>

NextLab ==
  \/ InitialLoad
  \/ HandleInputChange
  \/ StartSimulation
  \/ RandomizeInputs
  \/ Reload

SpecLab == InitLab /\ [][NextLab]_vars

TypeOKLab ==
  /\ pc \in {"mount", "ready"}
  /\ mode \in {"input", "simulation"}
  /\ notice \in {"none", "alert", "console.warn"}
  /\ edits \in 0..MaxEdits
  /\ \A k \in Keys : inputs[k] \in Int

TypeOK ==
  /\ pc \in {"solve", "solved", "unsolvable", "sampled", "explained"}
  /\ Len(trace) <= Len(stack)
  /\ points \in PointsVals
  /\ target \in TargetVals \cup {""}
  /\ extra \in ExtraVals

Done == pc # "solve"

Returned == pc \in {"solved", "sampled", "explained"}

(* the step machine and the function agree on every call *)
MachineAgrees == Done => solved = solveProjectileSystem(inputs)

-----------------------------------------------------------------------------
(* Vocabulary of the properties                                             *)

CaseOrder == <<"A", "B", "C", "D", "E">>

(* the pair of knowns each case needs *)
PairOf(c) ==
  IF c = "A" THEN {"u", "theta"}
  ELSE IF c = "B" THEN {"range", "theta"}
  ELSE IF c = "C" THEN {"maxHeight", "theta"}
  ELSE IF c = "D" THEN {"flightTime", "theta"}
  ELSE IF c = "E" THEN {"range", "flightTime"}
  ELSE {}

HasPair(f, c) == \A k \in PairOf(c) : f[k] # null

(* the first case, in the fixed order, whose pair is present in f *)
FirstCase(f) ==
  LET hits == {i \in 1..5 : HasPair(f, CaseOrder[i])}
  IN  IF hits = {} THEN "none"
      ELSE CaseOrder[CHOOSE i \in hits : \A j \in hits : i <= j]

(* f with every field outside K absent *)
KeepOnly(f, K) == [k \in DOMAIN f |-> IF k \in K THEN f[k] ELSE null]

-----------------------------------------------------------------------------
(* C1: every activation of solveProjectileSystem takes the first case, in  *)
(* the order A (u, theta), B (range, theta), C (maxHeight, theta),         *)
(* D (flightTime, theta), E (range, flightTime), whose pair of knowns is   *)
(* present; the value returned is the value returned for the inputs with   *)
(* every known outside that pair and y0 removed, so with u and theta       *)
(* present it depends on u, theta and y0 only.                             *)
C1_FixedPriority ==
  /\ \A i \in 1..Len(trace) : trace[i] = FirstCase(stack[i])
  /\ Done =>
       solved = solveProjectileSystem(
                  KeepOnly(inputs, PairOf(FirstCase(inputs)) \cup {"y0"}))

C1_Witness ==
  /\ Returned
  /\ trace = <<"A">>
  /\ inputs.u = Num(20) /\ inputs.theta = Num(30)
  /\ inputs.range # null /\ inputs.maxHeight # null /\ inputs.flightTime # null
  /\ IsFinite(solved.range) /\ solved.range # inputs.range

(* C2: the call returns null for every partial state with none of the five *)
(* pairs present, and otherwise returns null only when the degenerate-     *)
(* angle guard of the case taken fails.                                    *)
C2_NullOnlyWithoutPairOrGuard ==
  Done =>
    ( solved = NoSolved
      <=> \/ \A i \in 1..5 : ~HasPair(inputs, CaseOrder[i])
          \/ FirstCase(inputs) = "B"
             /\ Le(Sin(Mul(Num(2), toRad(inputs.theta))), Epsilon)
          \/ FirstCase(inputs) \in {"C", "D"}
             /\ Le(Abs(Sin(toRad(inputs.theta))), Epsilon) )

C2_Witness ==
  /\ pc = "unsolvable"
  /\ inputs.u # null /\ inputs.range # null /\ inputs.theta = null
  /\ inputs.flightTime = null

(* C3: with u absent and range and theta present the call returns null     *)
(* exactly when sin(2 theta) <= 0.0001, in particular for theta = 0, for   *)
(* theta = 90 and for a negative sin(2 theta); the guard returns before    *)
(* anything is divided by sin(2 theta): no u is derived and no recursive   *)
(* call is made.                                                           *)
C3_RangeThetaGuard ==
  (Done /\ inputs.u = null /\ inputs.range # null /\ inputs.theta # null) =>
    LET s2 == Sin(Mul(Num(2), toRad(inputs.theta)))
    IN  /\ (pc = "unsolvable") <=> Le(s2, Epsilon)
        /\ (inputs.theta \in {0, Num(90)} \/ Lt(s2, 0)) => pc = "unsolvable"
        /\ pc = "unsolvable" => (Len(stack) = 1 /\ stack[1].u = null)

C3_Witness ==
  /\ pc = "unsolvable"
  /\ trace = <<"B">>
  /\ inputs.theta = Num(90)
  /\ inputs.range = Num(50)

(* C4: with u absent and theta present, together with maxHeight (range     *)
(* absent) or with flightTime (range and maxHeight absent), the call       *)
(* returns null exactly when |sin(theta)| <= 0.0001.                       *)
C4_SinThetaGuard ==
  ( /\ Done
    /\ inputs.u = null /\ inputs.theta # null /\ inputs.range = null
    /\ inputs.maxHeight # null \/ inputs.flightTime # null ) =>
    ((pc = "unsolvable") <=> Le(Abs(Sin(toRad(inputs.theta))), Epsilon))

C4_Witness ==
  /\ pc = "unsolvable"
  /\ trace = <<"C">>
  /\ inputs.maxHeight = 0
  /\ inputs.theta = 0
  /\ inputs.range = null

DerivedInputs(f) ==
  LET c == FirstCase(f)
  IN  [u |-> IF c = "B" THEN CalculatedUB(f)
             ELSE IF c = "C" THEN CalculatedUC(f)
             ELSE IF c = "D" THEN CalculatedUD(f)
             ELSE CalculatedUE(f),
       theta |-> IF c = "E" THEN CalculatedThetaE(f) ELSE f.theta,
       y0 |-> f.y0, range |-> null, maxHeight |-> null, flightTime |-> null]

(* C6: for each reduction case B, C, D, E and every partial state that     *)
(* passes its guard, the solved state returned equals, field for field,    *)
(* the solved state of {u: derived u, theta: given or derived theta,       *)
(* y0: the same y0} with every other field absent.                         *)
C6_ReductionEqualsCaseA ==
  (Returned /\ trace[1] \in {"B", "C", "D", "E"}) =>
    /\ solved = solveProjectileSystem(DerivedInputs(inputs))
    /\ solved.u = DerivedInputs(inputs).u
    /\ solved.theta = DerivedInputs(inputs).theta

C6_Witness ==
  /\ Returned
  /\ trace = <<"B", "A">>
  /\ inputs.maxHeight # null /\ inputs.flightTime # null
  /\ inputs.y0 = Num(5)
  /\ IsFinite(solved.maxHeight) /\ solved.maxHeight # inputs.maxHeight

(* |a - b| <= 0.1, a finite *)
Near(a, b) == IsFinite(a) /\ Abs(a - b) <= Scale \div 10

(* a launch angle strictly between 0 and 90 degrees, tiny angles excluded *)
SaneTheta(th) == th >= Num(1) /\ th < Num(90)

(* C7: for y0 >= 0 and positive knowns, the solved state of a reduction    *)
(* case reproduces the known it was derived from: range and flightTime in  *)
(* case E, range in case B, maxHeight in case C, flightTime in case D.     *)
C7_ReproducesKnowns ==
  (Returned /\ Y0Of(inputs) >= 0) =>
    /\ (trace[1] = "E" /\ inputs.range > 0 /\ inputs.flightTime > 0) =>
         /\ Near(solved.range, inputs.range)
         /\ Near(solved.flightTime, inputs.flightTime)
    /\ (trace[1] = "B" /\ inputs.range > 0 /\ SaneTheta(inputs.theta)) =>
         Near(solved.range, inputs.range)
    /\ (trace[1] = "C" /\ inputs.maxHeight > 0 /\ SaneTheta(inputs.theta)) =>
         Near(solved.maxHeight, inputs.maxHeight)
    /\ (trace[1] = "D" /\ inputs.flightTime > 0 /\ SaneTheta(inputs.theta)) =>
         Near(solved.flightTime, inputs.flightTime)

(* the same for launches from the ground, where the code does reproduce    *)
(* the knowns                                                              *)
ReproducesKnownsFromGround == Y0Of(inputs) = 0 => C7_ReproducesKnowns

(* C8: the solved state has y0 = 0 when y0 is absent from the inputs and   *)
(* the supplied y0 when it is present, whichever case resolved the inputs. *)
C8_Y0Default ==
  Returned => solved.y0 = (IF inputs.y0 = null THEN 0 ELSE inputs.y0)

C8_Witness ==
  /\ Returned
  /\ trace = <<"D", "A">>
  /\ inputs.y0 = Num(5)
  /\ solved.y0 = Num(5)

C8_WitnessAbsent ==
  /\ Returned
  /\ Len(stack) = 2
  /\ inputs.y0 = null
  /\ solved.y0 = 0

(* a sampled flight whose flightTime is a positive finite number *)
SampledFlight ==
  /\ pc = "sampled"
  /\ IsFinite(solved.flightTime)
  /\ solved.flightTime > 0

(* C9: generateTrajectory(vars, points) with vars.flightTime > 0 and       *)
(* points >= 1 returns exactly points + 1 samples, 101 for the default.    *)
C9_SampleCount ==
  (pc = "sampled" /\ Gt(solved.flightTime, 0) /\ points >= 1) =>
    Len(data) = points + 1

C9_Witness ==
  /\ SampledFlight
  /\ points = DefaultPoints
  /\ Len(data) = 101

(* C10 as stated: in a sequence returned for flightTime > 0 the t values   *)
(* strictly increase, the first t is 0, the last t is flightTime and the   *)
(* last x is ux * flightTime.                                              *)
C10_LastSampleAtFlightTime ==
  (SampledFlight /\ points >= 1) =>
    /\ \A k \in 1..(Len(data) - 1) : Lt(data[k].t, data[k + 1].t)
    /\ data[1].t = 0
    /\ data[Len(data)].t = solved.flightTime
    /\ data[Len(data)].x = Mul(solved.ux, solved.flightTime)

(* C10 as amended: for a finite flightTime > 0 and points >= 1 the first t *)
(* is 0, the t values never decrease and strictly increase whenever the    *)
(* step dt = flightTime / points is not 0, and the last sample has         *)
(* t = points * dt and x = ux * t, where points * dt equals flightTime     *)
(* only up to the rounding of the division (half a unit per step).         *)
C10_TimesIncreaseToLastStep ==
  (SampledFlight /\ points >= 1) =>
    LET dt == Div(solved.flightTime, Num(points))
        last == data[Len(data)]
    IN  /\ Len(data) = points + 1
        /\ data[1].t = 0
        /\ \A k \in 1..points :
             /\ Le(data[k].t, data[k + 1].t)
             /\ dt # 0 => Lt(data[k].t, data[k + 1].t)
        /\ last.t = Mul(Num(points), dt)
        /\ last.x = Mul(solved.ux, last.t)
        /\ 2 * Abs(last.t - solved.flightTime) <= points

C10_Witness ==
  /\ SampledFlight
  /\ points = DefaultPoints
  /\ data[1].t = 0
  /\ data[Len(data)].t # solved.flightTime
  /\ IsFinite(data[Len(data)].x)
  /\ data[Len(data)].x # solved.range

(* the height y0 + uy t - g t^2 / 2 of the state sv at time t, unclamped *)
RawHeight(sv, t) ==
  Sub(Add(sv.y0, Mul(sv.uy, t)), Mul(Mul(Mul(Half, G), t), t))

C12_FirstSampleAtY0 ==
  (SampledFlight /\ points >= 1) =>
    /\ Len(data) >= 1
    /\ data[1] = [x |-> 0, y |-> solved.y0, t |-> 0]

(* C12 as amended: for a finite flightTime > 0 and points >= 1 the first   *)
(* sample is exactly (x = 0, y = max(y0, 0), t = 0): the initial height    *)
(* when it is not negative, 0 when it is.                                  *)
C12_FirstSampleClampedY0 ==
  (SampledFlight /\ points >= 1) =>
    /\ Len(data) >= 1
    /\ data[1] = [x |-> 0,
                  y |-> IF solved.y0 < 0 THEN 0 ELSE solved.y0,
                  t |-> 0]

(* a flight from above the ground whose first sample is at its height *)
C12_Witness ==
  /\ SampledFlight
  /\ points >= 1
  /\ solved.y0 > 0
  /\ data[1] = [x |-> 0, y |-> solved.y0, t |-> 0]

(* a flight from below the ground whose first sample is at height 0 *)
C12_WitnessBelowGround ==
  /\ SampledFlight
  /\ points >= 1
  /\ solved.y0 < 0
  /\ data[1].y = 0

(* C13: generateTrajectory returns an empty sequence whenever flightTime   *)
(* is <= 0 or is not a number, for any requested point count, and a        *)
(* non-empty one whenever flightTime > 0 and points >= 0.                  *)
C13_EmptyIffNoFlight ==
  pc = "sampled" =>
    /\ (Le(solved.flightTime, 0) \/ solved.flightTime = NaN) => data = << >>
    /\ (Gt(solved.flightTime, 0) /\ points >= 0) => data # << >>

(* a state that lands before it is launched was sampled, points >= 1 *)
C13_Witness ==
  /\ pc = "sampled"
  /\ Lt(solved.flightTime, 0)
  /\ points >= 1
  /\ data = << >>

(* a state whose flightTime is not a number was sampled *)
C13_WitnessNaN ==
  /\ pc = "sampled"
  /\ solved.flightTime = NaN
  /\ data = << >>

(* a flight sampled with points = 0 gave a sequence of one sample *)
C13_WitnessNoPoints ==
  /\ SampledFlight
  /\ points = 0
  /\ Len(data) = 1

(* the tolerance of a comparison of two computed lengths or times: 0.5 *)
Tolerance == Scale \div 2

(* the launch of C14: u > 0, 0 < theta < 90 and y0 >= 0 given *)
ForwardLaunch ==
  /\ inputs.u # null /\ inputs.u > 0
  /\ inputs.theta # null /\ inputs.theta > 0 /\ inputs.theta < Num(90)
  /\ Y0Of(inputs) >= 0

(* C14: for u > 0, 0 < theta < 90 and y0 >= 0, solving {u, theta, y0} and  *)
(* sampling the result (points >= 1) gives a last sample with x equal to   *)
(* the solved range and y equal to 0 within tolerance, and the solved      *)
(* flightTime is the positive root of y0 + uy t - g t^2 / 2 = 0.           *)
C14_LastSampleLands ==
  (pc = "sampled" /\ ForwardLaunch /\ points >= 1) =>
    /\ trace = <<"A">>
    /\ IsFinite(solved.flightTime) /\ solved.flightTime > 0
    /\ IsFinite(RawHeight(solved, solved.flightTime))
    /\ Abs(RawHeight(solved, solved.flightTime)) <= Tolerance
    /\ Len(data) = points + 1
    /\ IsFinite(data[Len(data)].x) /\ IsFinite(solved.range)
    /\ Abs(data[Len(data)].x - solved.range) <= Tolerance
    /\ IsFinite(data[Len(data)].y)
    /\ Abs(data[Len(data)].y) <= Tolerance

(* a launch from above the ground was sampled with the default count and   *)
(* its last sample is at the solved range                                  *)
C14_Witness ==
  /\ pc = "sampled"
  /\ ForwardLaunch
  /\ solved.y0 > 0
  /\ points = DefaultPoints
  /\ Abs(data[Len(data)].x - solved.range) <= Tolerance
  /\ solved.range > Num(10)

(* a call of generateSteps on a solved state has returned *)
Explained == pc = "explained"

(* the resolver case whose derivation of u the sequence st opens with *)
TemplateCase(st) ==
  IF st = << >> THEN "none"
  ELSE IF st[1] = StepsURangeTheta(inputs, solved, 0)[1] THEN "B"
  ELSE IF st[1] = StepsUHeightTheta(inputs, solved, 0)[1] THEN "C"
  ELSE IF st[1] = StepsUTimeTheta(inputs, solved, 0)[1] THEN "D"
  ELSE IF st[1] = StepsURangeTime(inputs, solved)[1] THEN "E"
  ELSE "other"

(* C15: for target 'u' the template is chosen by testing the partial state *)
(* in the order range&theta, maxHeight&theta, flightTime&theta,            *)
(* range&flightTime, and for every resolved partial state with u absent it *)
(* is the template of the resolver case (B, C, D or E) that produced the   *)
(* solution.                                                               *)
C15_TemplateMirrorsCase ==
  (Explained /\ target = "u") =>
    /\ TemplateCase(steps) = FirstCase([inputs EXCEPT !.u = null])
    /\ inputs.u = null =>
         /\ trace[1] \in {"B", "C", "D", "E"}
         /\ TemplateCase(steps) = trace[1]

(* u was derived from flightTime and theta although maxHeight or range    *)
(* could not be used, and explained with the flightTime template           *)
C15_Witness ==
  /\ Explained
  /\ target = "u"
  /\ inputs.u = null
  /\ trace[1] = "D"
  /\ TemplateCase(steps) = "D"
  /\ Len(steps) = 3

(* range, flightTime and theta were all given: case B and its template *)
C15_WitnessOverlap ==
  /\ Explained
  /\ target = "u"
  /\ inputs.u = null /\ inputs.range # null /\ inputs.flightTime # null
  /\ trace[1] = "B"
  /\ TemplateCase(steps) = "B"

(* the last number substituted into the last step of st *)
FinalNumber(st) ==
  LET v == st[Len(st)].values
  IN  v[Len(v)]

(* C16 as stated: for target 'u' each of the four patterns emits the same  *)
(* four steps: the formula, the formula rearranged for u, the formula with *)
(* two-decimal values substituted, and a final step showing solved.u to    *)
(* two decimals.                                                           *)
C16_FourStages ==
  (Explained /\ target = "u" /\ steps # << >>) =>
    /\ Len(steps) = 4
    /\ steps[1].values = << >>
    /\ steps[2].values = << >>
    /\ steps[3].values # << >>
    /\ steps[4].values = <<toFixed2(solved.u)>>

(* C16 as amended: for target 'u' every pattern ends with solved.u to two  *)
(* decimals, but the stages differ: range&theta emits four steps (formula, *)
(* rearranged, substituted, result), maxHeight&theta and flightTime&theta  *)
(* emit three (formula, rearranged, substitution together with the         *)
(* result), range&flightTime emits four (component formulas, component     *)
(* values, combination formula, substitution together with the result);    *)
(* g is shown unformatted and the range&theta substitution shows the       *)
(* unformatted angle 2 * theta.                                            *)
C16_StagesPerPattern ==
  (Explained /\ target = "u" /\ steps # << >>) =>
    LET c == TemplateCase(steps)
        theta == IF inputs.theta # null THEN inputs.theta ELSE solved.theta
    IN  /\ c \in {"B", "C", "D", "E"}
        /\ FinalNumber(steps) = toFixed2(solved.u)
        /\ Len(steps) = IF c \in {"C", "D"} THEN 3 ELSE 4
        /\ steps[1].values = << >>
        /\ c \in {"B", "C", "D"} =>
             /\ steps[2].values = << >>
             /\ G \in {steps[3].values[k] : k \in 1..Len(steps[3].values)}
        /\ c = "B" =>
             /\ steps[3].values =
                  <<toFixed2(inputs.range), G, toFixed2(theta),
                    toFixed2(inputs.range), G, Mul(Num(2), theta)>>
             /\ steps[4].values = <<toFixed2(solved.u)>>
        /\ c \in {"C", "D"} => Len(steps[3].values) = 4
        /\ c = "E" =>
             /\ Len(steps[2].values) = 6
             /\ steps[3].values = << >>
             /\ steps[4].values =
                  <<toFixed2(solved.ux), toFixed2(solved.uy), toFixed2(solved.u)>>

(* u was derived from maxHeight and theta and explained in three steps     *)
(* that end with u rounded to two decimals                                 *)
C16_Witness ==
  /\ Explained
  /\ target = "u"
  /\ TemplateCase(steps) = "C"
  /\ Len(steps) = 3
  /\ IsFinite(solved.u)
  /\ toFixed2(solved.u) # solved.u
  /\ FinalNumber(steps) = toFixed2(solved.u)

(* C17 as stated: for every target in {theta, range, maxHeight,            *)
(* flightTime} and every resolved partial state, generateSteps returns a   *)
(* non-empty sequence that ends with the solved value of the target.       *)
C17_AlwaysExplained ==
  (Explained /\ target \in {"theta", "range", "maxHeight", "flightTime"}) =>
    /\ steps # << >>
    /\ FinalNumber(steps) = toFixed2(solved[target])

(* C17 as amended: for range, maxHeight and flightTime the sequence is     *)
(* never empty, opens with the formula and ends with the solved value to   *)
(* two decimals; for theta it is non-empty exactly when range and          *)
(* flightTime are both present in the partial state (so whenever theta was *)
(* absent from a resolved state) and then shows the components, the        *)
(* formula and the solved theta to two decimals.                           *)
C17_ExplainedPerTarget ==
  /\ (Explained /\ target \in {"range", "maxHeight", "flightTime"}) =>
       /\ Len(steps) = IF target = "flightTime" THEN 4 ELSE 3
       /\ steps[1].values = << >>
       /\ FinalNumber(steps) = toFixed2(solved[target])
  /\ (Explained /\ target = "theta") =>
       /\ steps # << >> <=> (inputs.range # null /\ inputs.flightTime # null)
       /\ inputs.theta = null => steps # << >>
       /\ steps # << >> =>
            /\ Len(steps) = 3
            /\ steps[1].values = <<toFixed2(solved.ux), toFixed2(solved.uy)>>
            /\ steps[2].values = << >>
            /\ FinalNumber(steps) = toFixed2(solved.theta)

(* theta was absent, was derived from range and flightTime, and is shown   *)
C17_Witness ==
  /\ Explained
  /\ target = "theta"
  /\ inputs.theta = null
  /\ IsFinite(solved.theta)
  /\ Len(steps) = 3
  /\ FinalNumber(steps) = toFixed2(solved.theta)

(* theta asked for a state given by u and theta: nothing is shown *)
C17_WitnessNoSteps ==
  /\ Explained
  /\ target = "theta"
  /\ trace = <<"A">>
  /\ steps = << >>

(* the derived targets that read extraParams.time *)
TimeTargets == {"heightAtTime", "velocityAtTime", "distanceAtTime"}

(* C18 as stated: each of heightAtTime, velocityAtTime, timeToMaxHeight,   *)
(* distanceAtTime and timeToDistance yields steps only when its extra      *)
(* parameter is supplied; with extraParams absent generateSteps returns an *)
(* empty sequence for every one of the five.                               *)
C18_DerivedNeedExtra ==
  (Explained /\ extra = NoExtra
     /\ target \in TimeTargets \cup {"timeToMaxHeight", "timeToDistance"}) =>
    steps = << >>

(* C18 as amended: heightAtTime, velocityAtTime and distanceAtTime yield   *)
(* steps exactly when extraParams.time is supplied and timeToDistance      *)
(* exactly when extraParams.distance is; timeToMaxHeight takes no extra    *)
(* parameter and always yields its four steps.                             *)
C18_FourNeedExtra ==
  Explained =>
    /\ target \in TimeTargets => (steps = << >> <=> extra.time = undefined)
    /\ target = "timeToDistance" =>
         (steps = << >> <=> extra.distance = undefined)
    /\ target = "timeToMaxHeight" => Len(steps) = 4

(* timeToMaxHeight was explained without extraParams *)
C18_Witness ==
  /\ Explained
  /\ target = "timeToMaxHeight"
  /\ extra = NoExtra
  /\ Len(steps) = 4

(* heightAtTime asked without a time, timeToDistance with only a time *)
C18_WitnessEmpty ==
  /\ Explained
  /\ \/ target = "heightAtTime" /\ extra = NoExtra
     \/ target = "timeToDistance" /\ extra.time # undefined
  /\ steps = << >>

(* C19: for every target string outside the ten recognised keys            *)
(* generateSteps returns an empty sequence, whatever the partial state,    *)
(* the solved state and the extra parameters.                              *)
C19_UnknownTargetEmpty ==
  (Explained /\ target \notin KnownTargets) => steps = << >>

(* a target outside the ten keys was asked with a time supplied *)
C19_Witness ==
  /\ Explained
  /\ target \in {"y0", "ux", "speed"}
  /\ extra.time # undefined
  /\ inputs.range # null
  /\ steps = << >>

(* one unit of the two displayed decimals *)
DisplayUnit == Scale \div 100

(* C20: the final number shown for target 'timeToMaxHeight' equals, to the *)
(* displayed precision, the time-to-apex uy / g that the resolver uses and *)
(* that the lab uses as the quiz's correct value, for every solved state   *)
(* including those with y0 > 0.                                            *)
C20_PeakTimeIsUyOverG ==
  (Explained /\ target = "timeToMaxHeight"
     /\ IsFinite(solved.flightTime) /\ IsFinite(solved.uy)) =>
    /\ Abs(FinalNumber(steps) - toFixed2(ExtraValuesTPeak(solved))) <= DisplayUnit
    /\ Abs(FinalNumber(steps) - toFixed2(Div(solved.uy, G))) <= DisplayUnit

(* what holds of C20: for a launch from the ground that does not point     *)
(* downwards, half the flight time is uy / g and the final number agrees   *)
(* with the quiz's correct value.                                          *)
C20_PeakTimeFromGround ==
  (Explained /\ target = "timeToMaxHeight"
     /\ IsFinite(solved.flightTime) /\ IsFinite(solved.uy)
     /\ solved.y0 = 0 /\ solved.uy >= 0) =>
    Abs(FinalNumber(steps) - toFixed2(ExtraValuesTPeak(solved))) <= DisplayUnit

(* timeToMaxHeight explained for a launch from above the ground: the final *)
(* number is half the flight time and is not uy / g                        *)
C20_Divergence ==
  /\ Explained
  /\ target = "timeToMaxHeight"
  /\ solved.y0 > 0 /\ solved.uy > 0
  /\ IsFinite(solved.flightTime)
  /\ FinalNumber(steps) = toFixed2(Div(solved.flightTime, Num(2)))
  /\ FinalNumber(steps) > toFixed2(ExtraValuesTPeak(solved)) + 10 * DisplayUnit

-----------------------------------------------------------------------------
(* Properties of ProjectileLab                                              *)

(* every present field of the state is a finite number *)
FinitePresent(state) == \A k \in Keys : state[k] = null \/ IsFinite(state[k])

(* the inputs of a lab mounted with the query string s, after its initial  *)
(* load effect                                                             *)
ReadBack(s) == IF hasParams(s) THEN paramInputs(s) ELSE InitialInputs

(* C21: saving a state whose present fields are finite numbers with        *)
(* updateUrl and reading it back with the initial load returns the same    *)
(* state, a field of value 0 included, except that an absent y0 or a y0 of *)
(* 0 is omitted on save and reads back as 0.                               *)
C21_UrlRoundTrip ==
  (pc = "ready" /\ FinitePresent(inputs)) =>
    ReadBack(updateUrl(inputs)) =
      [inputs EXCEPT !.y0 = IF @ = null THEN 0 ELSE @]

(* a launched state with a field of value 0 and a fractional field is in   *)
(* the query string and reads back as itself                               *)
C21_Witness ==
  /\ pc = "ready"
  /\ search = updateUrl(inputs)
  /\ \E k \in Keys \ {"y0"} : inputs[k] = 0
  /\ \E k \in Keys : inputs[k] # null /\ inputs[k] % Scale # 0
  /\ ReadBack(search) = inputs

(* a state whose y0 was cleared is saved without y0 and reads back y0 = 0 *)
C21_WitnessNoY0 ==
  /\ pc = "ready"
  /\ search = updateUrl(inputs)
  /\ search # NoSearch
  /\ inputs.y0 = null
  /\ ReadBack(search).y0 = 0

(* C22: every non-null field of a state the lab passes to                  *)
(* solveProjectileSystem is a finite number, on both entry paths: the      *)
(* query string read by the initial load and the text typed into an input. *)
C22_FiniteAtResolver ==
  /\ (pc = "ready" /\ canSimulate(inputs)) => FinitePresent(inputs)
  /\ mode = "simulation" => FinitePresent(inputs)

(* what holds of C22: a field set by handleInputChange from the text of an *)
(* <input type="number"> is absent or a finite number.                     *)
C22_TypedFieldsFinite ==
  [][HandleInputChange =>
       \A k \in Keys :
         inputs'[k] # inputs[k] => (inputs'[k] = null \/ IsFinite(inputs'[k]))]_vars

(* a query string with non-numeric text started a simulation on NaN *)
C22_Divergence ==
  /\ pc = "ready"
  /\ mode = "simulation"
  /\ inputs.u = NaN
  /\ solvedData.range = NaN

(* the quantity activation f of case c divides by, besides g: sin(2 theta) *)
(* in case B, sin(theta) (squared, or doubled) in cases C and D,           *)
(* flightTime in case E                                                    *)
CheckedDivisor(c, f) ==
  IF c = "B" THEN Sin2Theta(f)
  ELSE IF c \in {"C", "D"} THEN SinTheta(f)
  ELSE IF c = "E" THEN f.flightTime
  ELSE G

(* activation i got past its guard and did its division *)
Divided(i) == i <= Len(trace) /\ (i < Len(stack) \/ trace[i] = "A")

(* C23: every division of solveProjectileSystem and generateTrajectory has *)
(* a divisor that is g or is non-zero, for all finite inputs.              *)
C23_DivisorsGuarded ==
  /\ \A i \in 1..Len(trace) :
       Divided(i) => CheckedDivisor(trace[i], stack[i]) # 0
  /\ (pc = "sampled" /\ data # << >>) => points # 0

(* what holds of C23: the divisors of cases A to D are g or were checked   *)
(* against epsilon.                                                        *)
C23_ThetaCasesGuarded ==
  \A i \in 1..Len(trace) :
    (Divided(i) /\ trace[i] # "E") =>
      /\ CheckedDivisor(trace[i], stack[i]) # 0
      /\ trace[i] = "B" => Gt(Sin2Theta(stack[i]), Epsilon)
      /\ trace[i] \in {"C", "D"} => Gt(Abs(SinTheta(stack[i])), Epsilon)

(* case E divided the range by a flightTime of 0 and the call returned a   *)
(* state that is not a number                                              *)
C23_Divergence ==
  /\ pc = "solved"
  /\ trace = <<"E", "A">>
  /\ inputs.flightTime = 0
  /\ inputs.range > 0
  /\ solved.range = NaN

(* C24: whenever a simulation is launched with inputs for which            *)
(* solveProjectileSystem returns null, the lab stays in input mode with    *)
(* solvedData null and shows the user a prompt about the invalid           *)
(* configuration.                                                          *)
C24_UnsolvablePrompts ==
  [][(StartSimulation /\ solveProjectileSystem(inputs) = NoSolved) =>
       /\ mode' = "input"
       /\ solvedData' = NoSolved
       /\ notice' = "alert"]_vars

(* what holds of C24: the lab stays in input mode with solvedData null,    *)
(* and the user is alerted only when no known pair is present; with a pair *)
(* present the failure is written to the console alone.                    *)
C24_UnsolvableAbsorbed ==
  [][(StartSimulation /\ solveProjectileSystem(inputs) = NoSolved) =>
       /\ mode' = "input"
       /\ solvedData' = NoSolved
       /\ inputs' = inputs
       /\ notice' = IF canSimulate(inputs) THEN "console.warn" ELSE "alert"]_vars

(* range and a theta of 0 were launched: nothing changed and nothing was   *)
(* shown                                                                   *)
C24_Divergence ==
  /\ pc = "ready"
  /\ notice = "console.warn"
  /\ mode = "input"
  /\ solvedData = NoSolved
  /\ inputs.range # null /\ inputs.theta = 0
  /\ search = updateUrl(inputs)

(* C25: in every reachable state of the lab in which mode is 'simulation', *)
(* solvedData equals solveProjectileSystem applied to the current inputs.  *)
C25_SolvedNeverStale ==
  mode = "simulation" => solvedData = solveProjectileSystem(inputs)

(* a simulation launched after the inputs were edited shows their solution *)
C25_Witness ==
  /\ pc = "ready"
  /\ mode = "simulation"
  /\ edits >= 1
  /\ search = updateUrl(inputs)
  /\ IsFinite(solvedData.range) /\ solvedData.range > 0
  /\ solvedData = solveProjectileSystem(inputs)

(* C26: in every reachable state of the lab, mode is 'simulation' if and   *)
(* only if solvedData is non-null.                                         *)
C26_ModeIffSolved ==
  mode = "simulation" <=> solvedData # NoSolved

(* an input was changed during a simulation: input mode, nothing solved,   *)
(* the quiz targets of the simulation still set                            *)
C26_Witness ==
  /\ pc = "ready"
  /\ mode = "input"
  /\ solvedData = NoSolved
  /\ edits >= 1
  /\ randomTimeTarget # null

(* a simulation is running *)
C26_WitnessSimulation ==
  /\ pc = "ready"
  /\ mode = "simulation"
  /\ solvedData # NoSolved
  /\ edits = MaxEdits

(* C27: canSimulate is true exactly when one of the five known-pairs of    *)
(* the resolver is present in the inputs, so a non-null result of          *)
(* solveProjectileSystem implies that canSimulate is true.                 *)
C27_LaunchableIffPair ==
  /\ canSimulate(inputs) <=> (\E i \in 1..5 : HasPair(inputs, CaseOrder[i]))
  /\ canSimulate(inputs) <=> MatchCase(inputs) # "none"
  /\ solveProjectileSystem(inputs) # NoSolved => canSimulate(inputs)

(* only flightTime and theta typed in: the fourth pair, solvable *)
C27_Witness ==
  /\ pc = "ready"
  /\ mode = "input"
  /\ {k \in Keys \ {"y0"} : inputs[k] # null} = {"flightTime", "theta"}
  /\ solveProjectileSystem(inputs) # NoSolved
  /\ canSimulate(inputs)

(* a pair is present and the resolver still rejects the inputs *)
C27_WitnessUnsolvable ==
  /\ pc = "ready"
  /\ canSimulate(inputs)
  /\ solveProjectileSystem(inputs) = NoSolved

(* the fields other than y0 that are present in f *)
PresentFields(f) == {k \in Keys \ {"y0"} : f[k] # null}

(* the four pairs randomizeInputs can give *)
ScenarioPairs ==
  { {"u", "theta"}, {"range", "theta"}, {"maxHeight", "theta"},
    {"range", "flightTime"} }

(* the draws of randomizeInputs that solveProjectileSystem resolves *)
SolvableDraws ==
  {drawn \in RandomizedInputs : solveProjectileSystem(drawn) # NoSolved}

(* C28: after every randomizeInputs action the lab is in input mode with   *)
(* solvedData null and both random quiz targets null, and the new inputs   *)
(* have y0 = 0 and exactly two other fields present, forming one of the    *)
(* pairs (u, theta), (range, theta), (maxHeight, theta), (range,           *)
(* flightTime), for which solveProjectileSystem returns a solved state.    *)
C28_RandomizedScenario ==
  [][RandomizeInputs =>
       /\ mode' = "input"
       /\ solvedData' = NoSolved
       /\ randomTimeTarget' = null
       /\ randomDistanceTarget' = null
       /\ inputs'.y0 = 0
       /\ Cardinality(PresentFields(inputs')) = 2
       /\ PresentFields(inputs') \in ScenarioPairs
       /\ FinitePresent(inputs')
       /\ inputs' \in SolvableDraws]_vars

(* New Scenario pressed during a simulation that followed two edits: the   *)
(* range and flightTime scenario, back in input mode with the targets       *)
(* cleared and the URL rewritten                                           *)
C28_Witness ==
  /\ pc = "ready"
  /\ edits = MaxEdits
  /\ inputs \in RandomizedInputs
  /\ PresentFields(inputs) = {"range", "flightTime"}
  /\ search = updateUrl(inputs)
  /\ mode = "input"
  /\ solvedData = NoSolved
  /\ randomTimeTarget = null /\ randomDistanceTarget = null
  /\ solveProjectileSystem(inputs) # NoSolved

(* the keys whose QuizCard is rendered when absent from the inputs *)
QuizKeys == {"u", "theta", "range", "maxHeight", "flightTime"}

(* C29: for every simulation the lab can reach and each key among u,       *)
(* theta, range, maxHeight, flightTime that is absent from the inputs,     *)
(* generateSteps(key, inputs, solvedData) returns a non-empty sequence.    *)
C29_QuizCardsExplained ==
  mode = "simulation" =>
    \A key \in QuizKeys :
      inputs[key] = null => generateSteps(key, inputs, solvedData, NoExtra) # << >>

(* a simulation of range and flightTime: cards for u, theta and maxHeight  *)
C29_Witness ==
  /\ pc = "ready"
  /\ mode = "simulation"
  /\ {key \in QuizKeys : inputs[key] = null} = {"u", "theta", "maxHeight"}
  /\ Len(generateSteps("u", inputs, solvedData, NoExtra)) > 0
  /\ Len(generateSteps("theta", inputs, solvedData, NoExtra)) > 0

(* a simulation of u, range and flightTime: the theta card alone among the *)
(* two conditional targets                                                 *)
C29_WitnessThetaOnly ==
  /\ mode = "simulation"
  /\ inputs.u # null /\ inputs.theta = null
  /\ generateSteps("theta", inputs, solvedData, NoExtra) # << >>

=============================================================================
